---------------------------- MODULE Spec2Model ----------------------------
(***************************************************************************)
(* The Space Shooter mini-game of the portfolio (SpaceGame.jsx, kept here  *)
(* as src/unnamed/part_000).                                               *)
(*                                                                         *)
(* Lengths are fixed-point integers in units of 0.000001 scene units, so   *)
(* 0.5 is 500000 and the slowest asteroid speed 0.012 is 12000.  A call of *)
(* Math.random() yields k/100 for a k drawn from a small set.              *)
(*                                                                         *)
(* React applies a setState call at the next render, not at the call: the  *)
(* calls made by frame callbacks, timers and window listeners are kept in  *)
(* the queue `pending` and applied, in order, by Render.  Refs are written *)
(* at once.  A click on the start button is a discrete event, rendered     *)
(* before anything else runs, so StartGame includes its render.            *)
(*                                                                         *)
(* Wall-clock time advances by FrameMs with every rendered frame; a timer  *)
(* whose remaining time has run out fires before the next frame, in any    *)
(* order with the other due timers and with the pending render.            *)
(***************************************************************************)
EXTENDS Integers, Sequences, FiniteSets

VARIABLES
    \* React state of SpaceGame, as of the last render
    shipPosition, bullets, asteroids, explosions, score, gameOver,
    gameStarted, gameTime,
    \* refs of SpaceGame
    bulletIdRef, asteroidIdRef, explosionIdRef, bulletsRef, shipPosRef,
    \* setState calls not yet rendered
    pending,
    \* mounted Bullet / Asteroid / Explosion components with their own refs,
    \* in the order their useFrame callbacks are called
    comps,
    \* remaining milliseconds of the three intervals, and the game time the
    \* spawn effect closed over
    clockRem, shootRem, spawnRem, spawnTime,
    \* what the asteroid callbacks of the latest frame reported
    events,
    \* number of keyboard / pointer events so far
    inputs,
    \* per session: the hits asteroid callbacks registered on an asteroid of
    \* health above 1 / of health 1
    hits, destroys,
    \* per session: the milliseconds played since startGame, and the number
    \* of callbacks of the spawn interval
    elapsed, spawned,
    \* the module-level caches of the GLB loaders (RocketModel.jsx and
    \* SolarSystem.jsx): per loader whether the scene is cached, whether a
    \* load was started, the callbacks waiting, and for the record the number
    \* of loads started, of calls made, whether the load failed, and the
    \* callbacks invoked so far
    assets

vars == <<shipPosition, bullets, asteroids, explosions, score, gameOver,
          gameStarted, gameTime, bulletIdRef, asteroidIdRef, explosionIdRef,
          bulletsRef, shipPosRef, pending, comps, clockRem, shootRem,
          spawnRem, spawnTime, events, inputs, hits, destroys, elapsed,
          spawned, assets>>

----------------------------------------------------------------------------
\* Bounds of the model

\* calls of each GLB loader
MaxCalls == 3

\* the elapsed game times the difficulty is evaluated at are 0..MaxTime
MaxTime == 60

\* milliseconds of wall-clock time per rendered frame
FrameMs == 40
\* keyboard and pointer events over the life of the view
MaxInputs == 1
\* the seconds of game time (first to last) in which the player's keyboard
\* and pointer events arrive
FirstInputTime == 16
LastInputTime == 17
\* bullets ever created (ends the run: auto-fire is the heartbeat of play)
MaxBullets == 80
\* values k of Math.random() = k/100 used for an asteroid's x
RandX == {53, 60}
\* the draws of startGame for the x of its three asteroids
InitialXs == {<<53, 53, 60>>}
\* values k of Math.random() = k/100 used for an asteroid's speed
RandSpeed == {99}
\* pointer positions (clientX) of mousemove / touchmove events
ClientXs == {-40, 480, 850}

----------------------------------------------------------------------------
\* Constants of the program

ShipMin == -4000000
ShipMax == 4000000
ShipStep == 500000
ShipY == -3500000
BulletStartY == -3000000
BulletStep == 300000
BulletMaxY == 6000000
BulletMinY == -3000000
AsteroidStartY == 5000000
ShieldY == 3000000
HitRange == 500000
PassY == -4500000
CooldownMs == 100
ShootMs == 250
ClockMs == 1000
ExplosionLife == 20
InitialAsteroids == 3
InitialHealth == 3
HitScore == 5
DestroyScore == 30
InnerWidth == 800

Min(a, b) == IF a < b THEN a ELSE b
Max(a, b) == IF a > b THEN a ELSE b
Abs(a) == IF a < 0 THEN -a ELSE a

\* (Math.random() - 0.5) * 8
RandomX(k) == (k - 50) * 80000

\* 0.012 + Math.min(gameTime * 0.0003, 0.015)
BaseSpeed(t) == 12000 + Min(t * 300, 15000)

\* 0.008 + Math.min(gameTime * 0.0002, 0.007)
SpeedVariation(t) == 8000 + Min(t * 200, 7000)

\* the spawn interval without its floor
SpawnIntervalNoFloor(t) == 1500 - t * 30

\* Math.max(1500 - gameTime * 30, 600)
SpawnInterval(t) == Max(1500 - t * 30, 600)

\* baseSpeed + Math.random() * speedVariation
SpawnSpeed(t, k) == BaseSpeed(t) + k * (SpeedVariation(t) \div 100)

\* 0.012 + Math.random() * 0.008
InitialSpeed(k) == 12000 + k * 80

\* handleMove without its Math.max / Math.min
MoveOffsetUnclamped(clientX) ==
    (((2 * clientX - InnerWidth) * 40000) \div InnerWidth) * 100

\* (clientX - centerX) / (window.innerWidth / 8), clamped
MoveOffset(clientX) ==
    Max(ShipMin, Min(ShipMax, (((2 * clientX - InnerWidth) * 40000) \div InnerWidth) * 100))

----------------------------------------------------------------------------
\* Records

Ids(s) == {s[i].id : i \in 1..Len(s)}

WithoutId(s, id) == SelectSeq(s, LAMBDA e : e.id # id)

\* a mounted component: positionRef (x, y), the speed prop, hitCooldownRef
\* with the time left on its setTimeout, and an explosion's opacity in steps
\* of 0.05
Comp(kind, id, x, y, speed) ==
    [kind |-> kind, id |-> id, x |-> x, y |-> y, speed |-> speed,
     cool |-> FALSE, cd |-> 0, life |-> ExplosionLife]

\* a setState call
Upd(op, id, x, y, list) == [op |-> op, id |-> id, x |-> x, y |-> y, list |-> list]

Event(type, aid, bid, x, y, health) ==
    [type |-> type, aid |-> aid, bid |-> bid, x |-> x, y |-> y, health |-> health]

playing == gameStarted /\ ~gameOver

----------------------------------------------------------------------------
\* Callbacks of SpaceGame, on the frame accumulator
\* acc = [comps, bref (bulletsRef.current), pend (setState calls), ev (events
\* reported)]

\* handleBulletUpdatePosition
handleBulletUpdatePosition(bref, id, x, y) ==
    IF id \in Ids(bref)
    THEN [i \in 1..Len(bref) |->
            IF bref[i].id = id /\ \A j \in 1..(i - 1) : bref[j].id # id
            THEN [bref[i] EXCEPT !.x = x, !.y = y] ELSE bref[i]]
    ELSE Append(bref, [id |-> id, x |-> x, y |-> y])

\* handleBulletRemove
handleBulletRemove(acc, id) ==
    [acc EXCEPT !.pend = Append(@, Upd("removeBullet", id, 0, 0, <<>>)),
                !.bref = WithoutId(@, id)]

\* handleAsteroidHit
handleAsteroidHit(acc, asteroidId, bulletId, hitX, hitY) ==
    [acc EXCEPT !.pend = @ \o <<Upd("hit", asteroidId, hitX, hitY, <<>>),
                                Upd("removeBullet", bulletId, 0, 0, <<>>)>>,
                !.bref = WithoutId(@, bulletId)]

\* handleGameOver
handleGameOver(acc, x, y) ==
    [acc EXCEPT !.pend = @ \o <<Upd("addExplosion", 0, x, y, <<>>),
                                Upd("setGameOver", 1, 0, 0, <<>>),
                                Upd("setAsteroids", 0, 0, 0, <<>>),
                                Upd("setBullets", 0, 0, 0, <<>>)>>,
                !.bref = <<>>]

----------------------------------------------------------------------------
\* useFrame callbacks

\* a bullet that is never taken off the screen
BulletFrameNoRemove(acc, i) ==
    LET c == acc.comps[i]
        ny == c.y + BulletStep
    IN  [acc EXCEPT !.comps[i].y = ny,
                    !.bref = handleBulletUpdatePosition(@, c.id, c.x, ny)]

\* Bullet useFrame
BulletFrame(acc, i) ==
    LET c == acc.comps[i]
        ny == c.y + BulletStep
        a1 == [acc EXCEPT !.comps[i].y = ny,
                          !.bref = handleBulletUpdatePosition(@, c.id, c.x, ny)]
    IN  IF ny > BulletMaxY THEN handleBulletRemove(a1, c.id) ELSE a1

\* the bullet test of the asteroid's loop over bulletsRef.current
BulletHits(b, x, y) ==
    /\ b.y > BulletMinY
    /\ b.y < BulletMaxY
    /\ Abs(x - b.x) < HitRange
    /\ Abs(y - b.y) < HitRange

\* index of the first bullet of bulletsRef.current that hits, 0 if none
FirstHit(bref, x, y) ==
    LET hitting == {j \in 1..Len(bref) : BulletHits(bref[j], x, y)}
    IN  IF hitting = {} THEN 0
        ELSE CHOOSE j \in hitting : \A k \in hitting : j <= k

\* the ship collision test
ShipCollides(x, y, shipX) ==
    Abs(x - shipX) < HitRange /\ Abs(y - ShipY) < HitRange

\* the pass-through test a unit too low
PassedShipLate(y) == y < PassY - 1000000

\* the pass-through test
PassedShip(y) == y < PassY

\* the bullet test without the shield guard
BulletTestRunsNoShield(c, y) == ~c.cool

\* the bullet test without the cooldown guard
BulletTestRunsNoCooldown(c, y) == y < ShieldY

\* whether the bullet test is run at all
BulletTestRuns(c, y) == ~c.cool /\ y < ShieldY

HealthOf(aid) ==
    LET s == SelectSeq(asteroids, LAMBDA a : a.id = aid)
    IN  IF s = <<>> THEN 0 ELSE s[1].health

\* Asteroid useFrame, after positionRef.current.y -= speed: c is the
\* component before the move, y its new height, j the index of the first
\* bullet of bulletsRef.current that hits, 0 if none or if the loop is skipped
AsteroidTests(a1, i, c, y, j) ==
    IF j # 0
    THEN handleAsteroidHit(
            [a1 EXCEPT !.comps[i].cool = TRUE,
                       !.comps[i].cd = CooldownMs,
                       !.ev = Append(@, Event("hit", c.id, a1.bref[j].id, c.x, y, HealthOf(c.id)))],
            c.id, a1.bref[j].id, c.x, y)
    ELSE IF ShipCollides(c.x, y, shipPosRef)
    THEN handleGameOver([a1 EXCEPT !.ev = Append(@, Event("ship", c.id, 0, c.x, y, HealthOf(c.id)))], c.x, y)
    ELSE IF PassedShip(y)
    THEN handleGameOver([a1 EXCEPT !.ev = Append(@, Event("pass", c.id, 0, c.x, y, HealthOf(c.id)))], c.x, y)
    ELSE a1

AsteroidMoved(acc, i, c, y) ==
    AsteroidTests([acc EXCEPT !.comps[i].y = y], i, c, y,
                  IF BulletTestRuns(c, y) THEN FirstHit(acc.bref, c.x, y) ELSE 0)

\* an asteroid that does not move
AsteroidFrameStill(acc, i) ==
    AsteroidMoved(acc, i, acc.comps[i], acc.comps[i].y)

\* Asteroid useFrame
AsteroidFrame(acc, i) ==
    AsteroidMoved(acc, i, acc.comps[i], acc.comps[i].y - acc.comps[i].speed)

\* an explosion that never calls onComplete
ExplosionFrameNoComplete(acc, i) ==
    [acc EXCEPT !.comps[i].life = @ - 1]

\* Explosion useFrame
ExplosionFrame(acc, i) ==
    LET c == acc.comps[i]
        n == c.life - 1
        a1 == [acc EXCEPT !.comps[i].life = n]
    IN  IF n <= 0
        THEN [a1 EXCEPT !.pend = Append(@, Upd("removeExplosion", c.id, 0, 0, <<>>))]
        ELSE a1

CompFrame(acc, i) ==
    CASE acc.comps[i].kind = "bullet" -> BulletFrame(acc, i)
      [] acc.comps[i].kind = "asteroid" -> AsteroidFrame(acc, i)
      [] OTHER -> ExplosionFrame(acc, i)

\* the frame loop calls every subscribed callback, in subscription order
RECURSIVE RunFrame(_, _)
RunFrame(acc, i) ==
    IF i > Len(acc.comps) THEN acc ELSE RunFrame(CompFrame(acc, i), i + 1)

----------------------------------------------------------------------------
\* Render: the queued setState calls applied in order
\* S = [bullets, asteroids, explosions, score, gameOver, gameStarted,
\*      gameTime, shipPosition, eid, nested]

\* hitX || asteroid.x
OrElse(v, w) == IF v # 0 THEN v ELSE w

\* the health test with < for <=
DestroyedLate(health) == health - 1 < 0

\* const newHealth = asteroid.health - 1; if (newHealth <= 0)
Destroyed(health) == health - 1 <= 0

\* a destroying hit that is also paid as a hit
DestroyCallsBoth(u, a) ==
    <<Upd("addExplosion", 0, u.x, u.y, <<>>),
      Upd("addScore", HitScore, 0, 0, <<>>),
      Upd("addScore", DestroyScore, 0, 0, <<>>)>>

\* the calls of the updater for a destroyed asteroid: setExplosions with the
\* explosion at (hitX || asteroid.x, hitY || 0), and setScore(s => s + 30);
\* the explosion's id is explosionIdRef.current++ when its updater runs
DestroyCalls(u, a) ==
    <<Upd("addExplosion", 0, OrElse(u.x, a.x), OrElse(u.y, 0), <<>>),
      Upd("addScore", DestroyScore, 0, 0, <<>>)>>

\* the call of the updater for a damaged asteroid: setScore(s => s + 5)
DamageCalls(a) == <<Upd("addScore", HitScore, 0, 0, <<>>)>>

\* the updater handleAsteroidHit passes to setAsteroids: prev.map(...) with
\* its calls of setExplosions and setScore, then .filter(a => a !== null)
RECURSIVE HitUpdater(_, _, _)
HitUpdater(S, u, i) ==
    IF i > Len(S.asteroids) THEN S
    ELSE IF S.asteroids[i].id # u.id THEN HitUpdater(S, u, i + 1)
    ELSE IF Destroyed(S.asteroids[i].health)
    THEN HitUpdater(
            [S EXCEPT !.asteroids = SubSeq(@, 1, i - 1) \o SubSeq(@, i + 1, Len(@)),
                      !.nested = @ \o DestroyCalls(u, S.asteroids[i])], u, i)
    ELSE HitUpdater(
            [S EXCEPT !.asteroids[i].health = @ - 1,
                      !.nested = @ \o DamageCalls(S.asteroids[i])], u, i + 1)

ApplyUpdate(S, u) ==
    CASE u.op = "addBullet" -> [S EXCEPT !.bullets = @ \o u.list]
      [] u.op = "removeBullet" -> [S EXCEPT !.bullets = WithoutId(@, u.id)]
      [] u.op = "setBullets" -> [S EXCEPT !.bullets = u.list]
      [] u.op = "hit" -> HitUpdater(S, u, 1)
      [] u.op = "addAsteroid" -> [S EXCEPT !.asteroids = @ \o u.list]
      [] u.op = "setAsteroids" -> [S EXCEPT !.asteroids = u.list]
      [] u.op = "addExplosion" ->
            [S EXCEPT !.explosions = Append(@, [id |-> S.eid, x |-> u.x, y |-> u.y]),
                      !.eid = @ + 1]
      [] u.op = "removeExplosion" -> [S EXCEPT !.explosions = WithoutId(@, u.id)]
      [] u.op = "setExplosions" -> [S EXCEPT !.explosions = u.list]
      [] u.op = "addScore" -> [S EXCEPT !.score = @ + u.id]
      [] u.op = "setScore" -> [S EXCEPT !.score = u.id]
      [] u.op = "setGameOver" -> [S EXCEPT !.gameOver = (u.id = 1)]
      [] u.op = "setGameStarted" -> [S EXCEPT !.gameStarted = (u.id = 1)]
      [] u.op = "addGameTime" -> [S EXCEPT !.gameTime = @ + u.id]
      [] u.op = "setGameTime" -> [S EXCEPT !.gameTime = u.id]
      [] OTHER -> [S EXCEPT !.shipPosition = u.x]

RECURSIVE ApplyUpdates(_, _)
ApplyUpdates(S, q) ==
    IF q = <<>> THEN S ELSE ApplyUpdates(ApplyUpdate(S, Head(q)), Tail(q))

\* the calls the updaters made while the queue was processed
Nested(S) == ApplyUpdates([S EXCEPT !.nested = <<>>], S.nested)

\* one render of SpaceGame: the queue, then the nested calls
Rendered(q) ==
    Nested(ApplyUpdates([bullets |-> bullets, asteroids |-> asteroids,
                         explosions |-> explosions, score |-> score,
                         gameOver |-> gameOver, gameStarted |-> gameStarted,
                         gameTime |-> gameTime, shipPosition |-> shipPosition,
                         eid |-> explosionIdRef, nested |-> <<>>], q))

\* GameScene: the components of the keys that are still listed stay mounted,
\* those of new keys mount (bullets, then asteroids, then explosions) and
\* subscribe their useFrame callback
Mounted(S) ==
    LET stays(c) ==
            CASE c.kind = "bullet" -> c.id \in Ids(S.bullets)
              [] c.kind = "asteroid" -> c.id \in Ids(S.asteroids)
              [] OTHER -> c.id \in Ids(S.explosions)
        old(kind) == {c.id : c \in {comps[i] : i \in {j \in 1..Len(comps) : comps[j].kind = kind}}}
        newB == SelectSeq(S.bullets, LAMBDA b : b.id \notin old("bullet"))
        newA == SelectSeq(S.asteroids, LAMBDA a : a.id \notin old("asteroid"))
        newE == SelectSeq(S.explosions, LAMBDA e : e.id \notin old("explosion"))
    IN  SelectSeq(comps, stays)
        \o [i \in 1..Len(newB) |-> Comp("bullet", newB[i].id, newB[i].x, newB[i].y, 0)]
        \o [i \in 1..Len(newA) |-> Comp("asteroid", newA[i].id, newA[i].x, AsteroidStartY, newA[i].speed)]
        \o [i \in 1..Len(newE) |-> Comp("explosion", newE[i].id, newE[i].x, newE[i].y, 0)]

\* the commit of a render, with the effects whose dependencies changed
\* (cleanup and re-run are taken to happen with the commit):
\* the game timer and auto-shoot effects depend on [gameStarted, gameOver],
\* the spawn effect on [gameStarted, gameOver, gameTime]
Commit(S) ==
    LET nowPlaying == S.gameStarted /\ ~S.gameOver
        changed == S.gameStarted # gameStarted \/ S.gameOver # gameOver
        changed3 == changed \/ S.gameTime # gameTime
    IN  /\ bullets' = S.bullets
        /\ asteroids' = S.asteroids
        /\ explosions' = S.explosions
        /\ score' = S.score
        /\ gameOver' = S.gameOver
        /\ gameStarted' = S.gameStarted
        /\ gameTime' = S.gameTime
        /\ shipPosition' = S.shipPosition
        /\ explosionIdRef' = S.eid
        /\ comps' = Mounted(S)
        /\ pending' = <<>>
        /\ clockRem' = IF changed THEN (IF nowPlaying THEN ClockMs ELSE 0) ELSE clockRem
        /\ shootRem' = IF changed THEN (IF nowPlaying THEN ShootMs ELSE 0) ELSE shootRem
        /\ spawnRem' = IF changed3 THEN (IF nowPlaying THEN SpawnInterval(S.gameTime) ELSE 0) ELSE spawnRem
        /\ spawnTime' = IF changed3 THEN S.gameTime ELSE spawnTime

----------------------------------------------------------------------------
\* The GLB loaders: loadModel (RocketModel.jsx), loadAvatar and loadAsteroid
\* (SolarSystem.jsx), each with its own module-level cache

Loaders == {"model", "avatar", "asteroid"}

\* cachedModel = null, modelLoading = false, modelCallbacks = []
NoAsset ==
    [cached |-> FALSE, loading |-> FALSE, callbacks |-> <<>>, started |-> 0,
     calls |-> 0, failed |-> FALSE, invoked |-> <<>>]

\* a loader that does not look at its loading flag
loadAlways(a, cb) ==
    IF a.cached
    THEN [a EXCEPT !.invoked = Append(@, cb), !.calls = @ + 1]
    ELSE [a EXCEPT !.callbacks = Append(@, cb), !.calls = @ + 1,
                   !.loading = TRUE, !.started = @ + 1]

\* loadModel(callback), on the cache a: the callback at once with a clone of
\* the cached scene, or queued, and loader.load started unless one is
\* under way
load(a, cb) ==
    IF a.cached
    THEN [a EXCEPT !.invoked = Append(@, cb), !.calls = @ + 1]
    ELSE IF ~a.loading
    THEN [a EXCEPT !.callbacks = Append(@, cb), !.calls = @ + 1,
                   !.loading = TRUE, !.started = @ + 1]
    ELSE [a EXCEPT !.callbacks = Append(@, cb), !.calls = @ + 1]

\* the onLoad callback of loader.load: cache the scene, call every queued
\* callback with a clone, empty the queue
onLoad(a) ==
    [a EXCEPT !.cached = TRUE, !.invoked = @ \o a.callbacks, !.callbacks = <<>>]

\* the onError callback of loader.load: console.error, nothing else
onError(a) == [a EXCEPT !.failed = TRUE]

\* a load started and neither completed nor failed
InFlight(a) == a.loading /\ ~a.cached /\ ~a.failed

----------------------------------------------------------------------------
\* The state after construction: useState / useRef initial values, nothing
\* mounted in the scene, no effect past its guard

Init ==
    /\ shipPosition = 0
    /\ bullets = <<>>
    /\ asteroids = <<>>
    /\ explosions = <<>>
    /\ score = 0
    /\ gameOver = FALSE
    /\ gameStarted = FALSE
    /\ gameTime = 0
    /\ bulletIdRef = 0
    /\ asteroidIdRef = 0
    /\ explosionIdRef = 0
    /\ bulletsRef = <<>>
    /\ shipPosRef = 0
    /\ pending = <<>>
    /\ comps = <<>>
    /\ clockRem = 0
    /\ shootRem = 0
    /\ spawnRem = 0
    /\ spawnTime = 0
    /\ events = <<>>
    /\ inputs = 0
    /\ hits = 0
    /\ destroys = 0
    /\ elapsed = 0
    /\ spawned = 0
    /\ assets = [l \in Loaders |-> NoAsset]

refs == <<bulletIdRef, asteroidIdRef, explosionIdRef, bulletsRef, shipPosRef>>
state == <<shipPosition, bullets, asteroids, explosions, score, gameOver,
           gameStarted, gameTime>>
tally == <<hits, destroys, elapsed, spawned>>
timers == <<clockRem, shootRem, spawnRem, spawnTime>>

ClockDue == playing /\ clockRem <= 0
ShootDue == playing /\ shootRem <= 0
SpawnDue == playing /\ spawnRem <= 0
CooldownDue(i) == comps[i].kind = "asteroid" /\ comps[i].cool /\ comps[i].cd <= 0
TimerDue == ClockDue \/ ShootDue \/ SpawnDue \/ \E i \in 1..Len(comps) : CooldownDue(i)

\* the asteroids of startGame with ids counted from 0 at every start
InitialAsteroidListFromZero(kx, ks) ==
    [i \in 1..InitialAsteroids |->
        [id |-> i - 1, x |-> RandomX(kx[i]),
         speed |-> InitialSpeed(ks[i]), health |-> InitialHealth]]

\* the asteroids startGame pushes: ids from asteroidIdRef, random x and speed
InitialAsteroidList(kx, ks) ==
    [i \in 1..InitialAsteroids |->
        [id |-> asteroidIdRef + i - 1, x |-> RandomX(kx[i]),
         speed |-> InitialSpeed(ks[i]), health |-> InitialHealth]]

\* startGame without setGameOver(false)
StartUpdatesKeepOver(initialAsteroids) ==
    << Upd("setGameStarted", 1, 0, 0, <<>>),
       Upd("setScore", 0, 0, 0, <<>>),
       Upd("setGameTime", 0, 0, 0, <<>>),
       Upd("setBullets", 0, 0, 0, <<>>),
       Upd("setAsteroids", 0, 0, 0, initialAsteroids),
       Upd("setExplosions", 0, 0, 0, <<>>),
       Upd("setShipPosition", 0, 0, 0, <<>>) >>

\* startGame without setGameTime(0)
StartUpdatesKeepTime(initialAsteroids) ==
    << Upd("setGameStarted", 1, 0, 0, <<>>),
       Upd("setGameOver", 0, 0, 0, <<>>),
       Upd("setScore", 0, 0, 0, <<>>),
       Upd("setBullets", 0, 0, 0, <<>>),
       Upd("setAsteroids", 0, 0, 0, initialAsteroids),
       Upd("setExplosions", 0, 0, 0, <<>>),
       Upd("setShipPosition", 0, 0, 0, <<>>) >>

\* the setState calls of startGame
StartUpdates(initialAsteroids) ==
    << Upd("setGameStarted", 1, 0, 0, <<>>),
       Upd("setGameOver", 0, 0, 0, <<>>),
       Upd("setScore", 0, 0, 0, <<>>),
       Upd("setGameTime", 0, 0, 0, <<>>),
       Upd("setBullets", 0, 0, 0, <<>>),
       Upd("setAsteroids", 0, 0, 0, initialAsteroids),
       Upd("setExplosions", 0, 0, 0, <<>>),
       Upd("setShipPosition", 0, 0, 0, <<>>) >>

\* the start / restart button is rendered while !gameStarted || gameOver
StartAvailable == ~gameStarted \/ gameOver

\* startGame, the onClick of that button; it has no precondition of its own
StartGame ==
    /\ StartAvailable
    /\ \E kx \in InitialXs, ks \in [1..InitialAsteroids -> RandSpeed] :
          /\ Commit(Rendered(pending \o StartUpdates(InitialAsteroidList(kx, ks))))
          /\ asteroidIdRef' = asteroidIdRef + InitialAsteroids
    /\ bulletsRef' = <<>>
    /\ shipPosRef' = 0
    /\ events' = <<>>
    /\ hits' = 0
    /\ destroys' = 0
    /\ elapsed' = 0
    /\ spawned' = 0
    /\ UNCHANGED <<bulletIdRef, inputs, assets>>

\* React renders SpaceGame with the queued setState calls
Render ==
    /\ pending # <<>>
    /\ Commit(Rendered(pending))
    /\ UNCHANGED <<bulletIdRef, asteroidIdRef, bulletsRef, shipPosRef, events, inputs, tally,
                   assets>>

\* what a frame leaves behind, and the FrameMs that pass with it
FrameDone(acc) ==
    /\ comps' = [i \in 1..Len(acc.comps) |->
                   IF acc.comps[i].cool
                   THEN [acc.comps[i] EXCEPT !.cd = @ - FrameMs]
                   ELSE acc.comps[i]]
    /\ bulletsRef' = acc.bref
    /\ pending' = acc.pend
    /\ events' = acc.ev
    /\ hits' = hits + Cardinality({i \in 1..Len(acc.ev) :
                                    acc.ev[i].type = "hit" /\ acc.ev[i].health > 1})
    /\ destroys' = destroys + Cardinality({i \in 1..Len(acc.ev) :
                                    acc.ev[i].type = "hit" /\ acc.ev[i].health = 1})
    /\ elapsed' = IF playing THEN elapsed + FrameMs ELSE elapsed
    /\ spawned' = spawned
    /\ clockRem' = IF playing THEN clockRem - FrameMs ELSE clockRem
    /\ shootRem' = IF playing THEN shootRem - FrameMs ELSE shootRem
    /\ spawnRem' = IF playing THEN spawnRem - FrameMs ELSE spawnRem

\* one rendered frame: every useFrame callback once, then FrameMs pass
Frame ==
    /\ pending = <<>>
    /\ ~TimerDue
    /\ FrameDone(RunFrame([comps |-> comps, bref |-> bulletsRef, pend |-> <<>>,
                           ev |-> <<>>], 1))
    /\ UNCHANGED <<state, bulletIdRef, asteroidIdRef, explosionIdRef, shipPosRef,
                   spawnTime, inputs, assets>>

\* the setTimeout of an asteroid's hit cooldown
CooldownEnd ==
    \E i \in 1..Len(comps) :
        /\ CooldownDue(i)
        /\ comps' = [comps EXCEPT ![i].cool = FALSE]
        /\ UNCHANGED <<state, refs, pending, timers, events, inputs, tally, assets>>

\* shoot with the bullet at x = 0 instead of the ship's x
shootAtOrigin ==
    /\ bulletIdRef < MaxBullets
    /\ bulletIdRef' = bulletIdRef + 1
    /\ pending' = Append(pending, Upd("addBullet", 0, 0, 0,
                           <<[id |-> bulletIdRef, x |-> 0, y |-> BulletStartY]>>))

\* shoot that creates no bullet
shootNothing ==
    /\ bulletIdRef < MaxBullets
    /\ bulletIdRef' = bulletIdRef
    /\ pending' = pending

\* shoot
shoot ==
    /\ bulletIdRef < MaxBullets
    /\ bulletIdRef' = bulletIdRef + 1
    /\ pending' = Append(pending, Upd("addBullet", 0, 0, 0,
                           <<[id |-> bulletIdRef, x |-> shipPosRef, y |-> BulletStartY]>>))

\* the 250 ms interval of the auto-shoot effect
AutoShoot ==
    /\ ShootDue
    /\ shoot
    /\ shootRem' = shootRem + ShootMs
    /\ UNCHANGED <<state, asteroidIdRef, explosionIdRef, bulletsRef, shipPosRef,
                   comps, clockRem, spawnRem, spawnTime, events, inputs, tally,
                   assets>>

\* the 1000 ms interval of the game timer effect
ClockTick ==
    /\ ClockDue
    /\ pending' = Append(pending, Upd("addGameTime", 1, 0, 0, <<>>))
    /\ clockRem' = clockRem + ClockMs
    /\ UNCHANGED <<state, refs, comps, shootRem, spawnRem, spawnTime, events, inputs, tally,
                   assets>>

\* the interval of the spawn effect, with the difficulty of its closure
SpawnAsteroid ==
    /\ SpawnDue
    /\ \E kx \in RandX, ks \in RandSpeed :
          pending' = Append(pending, Upd("addAsteroid", 0, 0, 0,
                        <<[id |-> asteroidIdRef, x |-> RandomX(kx),
                           speed |-> SpawnSpeed(spawnTime, ks), health |-> InitialHealth]>>))
    /\ asteroidIdRef' = asteroidIdRef + 1
    /\ spawnRem' = spawnRem + SpawnInterval(spawnTime)
    /\ spawned' = spawned + 1
    /\ UNCHANGED <<state, bulletIdRef, explosionIdRef, bulletsRef, shipPosRef,
                   comps, clockRem, shootRem, spawnTime, events, inputs, hits,
                   destroys, elapsed, assets>>

\* window listeners that are never removed
ListeningAlways == inputs < MaxInputs

\* the window listeners exist while gameStarted && !gameOver
Listening ==
    playing /\ inputs < MaxInputs /\ gameTime \in FirstInputTime..LastInputTime

MoveShip(x) ==
    /\ shipPosRef' = x
    /\ pending' = Append(pending, Upd("setShipPosition", 0, x, 0, <<>>))
    /\ inputs' = inputs + 1
    /\ UNCHANGED <<state, bulletIdRef, asteroidIdRef, explosionIdRef, bulletsRef,
                   comps, timers, events, tally, assets>>

\* handleKeyDown: ArrowLeft / a
KeyLeft ==
    /\ Listening
    /\ MoveShip(Max(ShipMin, shipPosRef - ShipStep))

\* handleKeyDown: ArrowRight / d
KeyRight ==
    /\ Listening
    /\ MoveShip(Min(ShipMax, shipPosRef + ShipStep))

\* handleKeyDown: the space bar
KeySpace ==
    /\ Listening
    /\ shoot
    /\ inputs' = inputs + 1
    /\ UNCHANGED <<state, asteroidIdRef, explosionIdRef, bulletsRef, shipPosRef,
                   comps, timers, events, tally, assets>>

\* handleMove, from mousemove and touchmove
PointerMove ==
    /\ Listening
    /\ \E clientX \in ClientXs : MoveShip(MoveOffset(clientX))

Next ==
    \/ StartGame
    \/ Render
    \/ Frame
    \/ CooldownEnd
    \/ AutoShoot
    \/ ClockTick
    \/ SpawnAsteroid
    \/ KeyLeft
    \/ KeyRight
    \/ KeySpace
    \/ PointerMove

Spec == Init /\ [][Next]_vars

----------------------------------------------------------------------------
\* The difficulty at every elapsed game time: a session that is playing at
\* game time t, at the moment the spawn interval armed by the effect run of
\* that game time has run out; its callback spawns with the closure's
\* baseSpeed, speedVariation and spawnInterval, and React renders

DifficultyInit ==
    /\ shipPosition = 0
    /\ bullets = <<>>
    /\ asteroids = <<>>
    /\ explosions = <<>>
    /\ score = 0
    /\ gameOver = FALSE
    /\ gameStarted = TRUE
    /\ gameTime \in 0..MaxTime
    /\ bulletIdRef = 0
    /\ asteroidIdRef = InitialAsteroids
    /\ explosionIdRef = 0
    /\ bulletsRef = <<>>
    /\ shipPosRef = 0
    /\ pending = <<>>
    /\ comps = <<>>
    /\ clockRem = ClockMs
    /\ shootRem = ShootMs
    /\ spawnRem = 0
    /\ spawnTime = gameTime
    /\ events = <<>>
    /\ inputs = 0
    /\ hits = 0
    /\ destroys = 0
    /\ elapsed = 0
    /\ spawned = 0
    /\ assets = [l \in Loaders |-> NoAsset]

DifficultyNext ==
    \/ SpawnAsteroid
    \/ Render

DifficultySpec == DifficultyInit /\ [][DifficultyNext]_vars

----------------------------------------------------------------------------
\* The asset loaders on their own: components call them with a callback
\* (numbered by call), and a load under way completes or fails

game == <<state, refs, pending, comps, timers, events, inputs, tally>>

LoadCall(l) ==
    /\ assets[l].calls < MaxCalls
    /\ assets' = [assets EXCEPT ![l] = load(@, @.calls)]
    /\ UNCHANGED game

loadModel == LoadCall("model")

loadAvatar == LoadCall("avatar")

loadAsteroid == LoadCall("asteroid")

Loaded ==
    \E l \in Loaders :
        /\ InFlight(assets[l])
        /\ assets' = [assets EXCEPT ![l] = onLoad(@)]
        /\ UNCHANGED game

LoadFailed ==
    \E l \in Loaders :
        /\ InFlight(assets[l])
        /\ assets' = [assets EXCEPT ![l] = onError(@)]
        /\ UNCHANGED game

AssetNext ==
    \/ loadModel
    \/ loadAvatar
    \/ loadAsteroid
    \/ Loaded
    \/ LoadFailed

AssetSpec == Init /\ [][AssetNext]_vars

----------------------------------------------------------------------------
\* Properties

C2_AsteroidHealth ==
    /\ [](\A i \in 1..Len(asteroids) : asteroids[i].health \in {1, 2, 3})
    /\ [][\A j \in 1..Len(asteroids') :
            /\ asteroids'[j].id \notin Ids(asteroids) => asteroids'[j].health = 3
            /\ \A i \in 1..Len(asteroids) :
                  asteroids[i].id = asteroids'[j].id =>
                      asteroids'[j].health <= asteroids[i].health]_vars

\* one asteroid was destroyed and another is down to its last health point
C2_Witness ==
    pending = <<>> /\ destroys > 0 /\ \E i \in 1..Len(asteroids) : asteroids[i].health = 1

\* C3: once the registered hits are rendered, score is 5 for every hit on an
\* asteroid that survived it plus 30 for every hit that destroyed one,
\* counted since the last start; and while the session is playing no
\* render lowers the score
C3_ScoreAccounting ==
    /\ [](pending = <<>> => score = 5 * hits + 30 * destroys)
    /\ [][playing /\ playing' => score' >= score]_vars

\* C4: the step that starts a session (from idle or from game over) leaves
\* it playing with exactly 3 asteroids of health 3 and a speed in
\* [0.012, 0.020), no bullet, no explosion, score 0, time 0, the ship at 0,
\* and nothing of the prior session in the store, among the mounted
\* components, in the queue or in bulletsRef
C4_FreshSession ==
    [][(~gameStarted \/ gameOver) /\ gameStarted' /\ ~gameOver' =>
        /\ Len(asteroids') = 3
        /\ \A i \in 1..Len(asteroids') :
              /\ asteroids'[i].health = 3
              /\ asteroids'[i].speed >= 12000 /\ asteroids'[i].speed < 20000
              /\ asteroids'[i].id >= asteroidIdRef
        /\ bullets' = <<>> /\ explosions' = <<>>
        /\ score' = 0 /\ gameTime' = 0
        /\ shipPosition' = 0 /\ shipPosRef' = 0
        /\ bulletsRef' = <<>> /\ pending' = <<>>
        /\ Len(comps') = 3
        /\ \A i \in 1..Len(comps') :
              comps'[i].kind = "asteroid" /\ comps'[i].id \in Ids(asteroids')]_vars

\* vocabulary of the properties below
HitPending == \E k \in 1..Len(pending) : pending[k].op = "hit"
GameOverPending == \E k \in 1..Len(pending) : pending[k].op = "setGameOver"
\* the render of the calls the latest frame queued
RenderStep == pending # <<>> /\ pending' = <<>> /\ asteroidIdRef' = asteroidIdRef
\* the hits the latest frame registered on an asteroid of health above 1 / 1
NonLethalHits == {i \in 1..Len(events) : events[i].type = "hit" /\ events[i].health > 1}
LethalHits == {i \in 1..Len(events) : events[i].type = "hit" /\ events[i].health = 1}
GameOverCalls == {i \in 1..Len(events) : events[i].type \in {"ship", "pass"}}

\* C5: when a frame registers a hit on an asteroid of health h > 1 (and
\* no game over), its render leaves the asteroid in the store with health
\* h - 1, removes the consumed bullet, a bullet of the store, from the
\* store, adds 5 to score for the hit, and the frame registered no other
\* hit on that asteroid
C5_HitResolution ==
    [][RenderStep /\ HitPending /\ ~GameOverPending =>
        \A i \in NonLethalHits :
            /\ \E k \in 1..Len(asteroids') :
                  /\ asteroids'[k].id = events[i].aid
                  /\ asteroids'[k].health = events[i].health - 1
            /\ events[i].bid \in Ids(bullets)
            /\ events[i].bid \notin Ids(bullets')
            /\ \A j \in 1..Len(events) :
                  (events[j].type = "hit" /\ events[j].aid = events[i].aid) => j = i
            /\ score' = score + 5 * Cardinality(NonLethalHits)
                               + 30 * Cardinality(LethalHits)]_vars

\* C6: the render of a frame's hits removes an asteroid exactly when the
\* hit found it at health 1 (its third hit), creating one explosion at the
\* hit point and adding 30; a hit that found it at health 2 or 3 adds 5 and
\* (unless the same frame ended the game) leaves it in the store, one
\* health point down: 5 + 5 + 30 = 40 and one explosion per asteroid
C6_ThirdHitDestroys ==
    [][RenderStep /\ HitPending =>
        /\ \A i \in NonLethalHits :
              \/ GameOverPending
              \/ \E k \in 1..Len(asteroids') :
                    /\ asteroids'[k].id = events[i].aid
                    /\ asteroids'[k].health = events[i].health - 1
        /\ \A i \in LethalHits :
              /\ events[i].aid \notin Ids(asteroids')
              /\ \E k \in 1..Len(explosions') :
                    /\ explosions'[k].id \notin Ids(explosions)
                    /\ explosions'[k].x = events[i].x
                    /\ explosions'[k].y = events[i].y
        /\ Cardinality(Ids(explosions') \ Ids(explosions))
              = Cardinality(LethalHits) + Cardinality(GameOverCalls)
        /\ score' = score + 5 * Cardinality(NonLethalHits)
                           + 30 * Cardinality(LethalHits)]_vars

\* a destroying hit was just rendered: its explosion is in the store and
\* the asteroid's 40 points are in the score
C6_Witness ==
    /\ playing /\ pending = <<>> /\ LethalHits # {}
    /\ score >= 40 /\ Len(explosions) >= 1
    /\ \A i \in LethalHits : events[i].aid \notin Ids(asteroids)

\* the asteroids a frame has moved below the pass-through line
PassComps == {i \in 1..Len(comps) : comps[i].kind = "asteroid" /\ comps[i].y < -4500000}

InShipRange(x, y) == Abs(x - shipPosRef) < 500000 /\ Abs(y + 3500000) < 500000

\* the frame's reports about one asteroid
EventsOf(ev, aid) == {j \in 1..Len(ev) : ev[j].aid = aid}

\* C8: while playing, every frame that leaves an asteroid within 0.5 of the
\* ship on both axes (ship x being the clamped input value) triggers game
\* over through that asteroid's ship-collision test, at a y still above
\* the pass-through line -4.5
C8_ShipCollision ==
    [][Frame /\ playing =>
        \A i \in 1..Len(comps') :
            (comps'[i].kind = "asteroid" /\ InShipRange(comps'[i].x, comps'[i].y)) =>
                /\ \E j \in EventsOf(events', comps'[i].id) : events'[j].type = "ship"
                /\ \E k \in 1..Len(pending') : pending'[k].op = "setGameOver"
                /\ comps'[i].y > PassY]_vars

\* C9: the ship test is evaluated independently of the bullet test: while
\* playing, a frame in which an asteroid registers a bullet hit while within
\* 0.5 of the ship on both axes still triggers game over
C9_ShipTestIndependent ==
    [][Frame /\ playing =>
        \A j \in 1..Len(events') :
            (events'[j].type = "hit" /\ InShipRange(events'[j].x, events'[j].y)) =>
                \E k \in 1..Len(pending') : pending'[k].op = "setGameOver"]_vars

\* C10: in every game-over state the asteroid store and the bullet store
\* are empty, and the score does not change while the session stays in
\* game over
C10_GameOverFrozen ==
    /\ [](gameOver => asteroids = <<>> /\ bullets = <<>>)
    /\ [][gameOver /\ gameOver' => score' = score]_vars

\* C11: once game over has been triggered (handleGameOver has been called,
\* whether or not its setState calls are rendered yet) no callback of the
\* auto-fire, spawn or clock timer runs, so none of them touches bullets,
\* asteroids or elapsed time
C11_TimersTornDown ==
    [][(GameOverPending \/ gameOver) => ~(AutoShoot \/ SpawnAsteroid \/ ClockTick)]_vars

\* C12: while the session is playing, every callback of the spawn interval
\* appends exactly one asteroid of health 3, and with the interval of 1500 ms
\* at elapsed time 0 the first such callback has run once more than 1500 ms
\* have been played
C12_SpawnCadence ==
    /\ [](playing /\ elapsed >= SpawnInterval(0) + FrameMs => spawned >= 1)
    /\ [][SpawnAsteroid =>
            /\ Len(pending') = Len(pending) + 1
            /\ pending'[Len(pending')].op = "addAsteroid"
            /\ Len(pending'[Len(pending')].list) = 1
            /\ pending'[Len(pending')].list[1].health = 3]_vars

\* the asteroids the spawn interval has created, queued or rendered
SpawnedAsteroids ==
    {asteroids[i] : i \in 1..Len(asteroids)}
    \cup UNION {{pending[k].list[j] : j \in 1..Len(pending[k].list)} :
                  k \in {n \in 1..Len(pending) : pending[n].op = "addAsteroid"}}

C14_SpeedCap ==
    \A a \in SpawnedAsteroids : a.speed <= 35000

\* the mounted Asteroid components of one id
AsteroidComps(cs, aid) ==
    {i \in 1..Len(cs) : cs[i].kind = "asteroid" /\ cs[i].id = aid}

\* C15: a frame registers a hit only on an asteroid that is not in its
\* cooldown and starts the 100 ms cooldown with the hit; the cooldown ends
\* only when its 100 ms have passed; and no render takes more than 1 health
\* point from an asteroid
C15_HitCooldown ==
    /\ [][Frame =>
            \A j \in 1..Len(events') :
                events'[j].type = "hit" =>
                    /\ \A i \in AsteroidComps(comps, events'[j].aid) : ~comps[i].cool
                    /\ \A i \in AsteroidComps(comps', events'[j].aid) :
                          comps'[i].cool /\ comps'[i].cd = CooldownMs - FrameMs]_vars
    /\ [][\A i \in 1..Len(comps) :
            (comps[i].kind = "asteroid" /\ comps[i].cool) =>
                \A k \in AsteroidComps(comps', comps[i].id) :
                    ~comps'[k].cool => comps[i].cd <= 0]_vars
    /\ [][\A i \in 1..Len(asteroids), k \in 1..Len(asteroids') :
            asteroids[i].id = asteroids'[k].id =>
                asteroids'[k].health >= asteroids[i].health - 1]_vars

\* an asteroid hit for the second time, in its second cooldown
C15_Witness ==
    \E j \in 1..Len(events) :
        /\ events[j].type = "hit" /\ events[j].health = 2
        /\ \E i \in AsteroidComps(comps, events[j].aid) : comps[i].cool

\* C16: while the session is playing the rendered game time is the number of
\* whole seconds played since the start; the step that starts or restarts a
\* session leaves it 0; a render changes it by one second at most; and it
\* does not change while the session stays in game over
C16_GameClock ==
    /\ [](playing /\ pending = <<>> /\ ~ClockDue => gameTime = elapsed \div ClockMs)
    /\ [][(~playing /\ playing') => gameTime' = 0 /\ elapsed' = 0]_vars
    /\ [][playing => gameTime' \in {gameTime, gameTime + 1}]_vars
    /\ [][gameOver /\ gameOver' => gameTime' = gameTime]_vars

\* a second session, some seconds in, after a first one of 16 s or more
C16_Witness ==
    playing /\ pending = <<>> /\ asteroidIdRef >= 6 /\ gameTime >= 2 /\ elapsed >= 2000

\* every bullet there is: in the store, queued, mounted, or in bulletsRef
BulletIdsInUse ==
    Ids(bullets) \cup Ids(bulletsRef)
    \cup {comps[i].id : i \in {n \in 1..Len(comps) : comps[n].kind = "bullet"}}
    \cup UNION {Ids(pending[k].list) :
                  k \in {n \in 1..Len(pending) : pending[n].op = "addBullet"}}

\* C17: while the session is playing the auto-fire interval runs out at
\* every multiple of 250 ms since the start, whatever the player does; each
\* of its callbacks queues exactly one bullet at (ship x, -3) with the next
\* unused id, above every id in use; and no bullet ever changes its x, in
\* the store, in its component or in bulletsRef
C17_AutoFire ==
    /\ [](playing /\ ~ShootDue => shootRem = ShootMs - (elapsed % ShootMs))
    /\ [](\A id \in BulletIdsInUse : id < bulletIdRef)
    /\ [][AutoShoot =>
            /\ Len(pending') = Len(pending) + 1
            /\ pending'[Len(pending')].op = "addBullet"
            /\ pending'[Len(pending')].list =
                  <<[id |-> bulletIdRef, x |-> shipPosRef, y |-> -3000000]>>
            /\ bulletIdRef' = bulletIdRef + 1]_vars
    /\ [][/\ \A i \in 1..Len(bullets), k \in 1..Len(bullets') :
                bullets[i].id = bullets'[k].id => bullets'[k].x = bullets[i].x
          /\ \A i \in 1..Len(bulletsRef), k \in 1..Len(bulletsRef') :
                bulletsRef[i].id = bulletsRef'[k].id => bulletsRef'[k].x = bulletsRef[i].x
          /\ \A i \in 1..Len(comps), k \in 1..Len(comps') :
                (comps[i].kind = "bullet" /\ comps'[k].kind = "bullet"
                    /\ comps[i].id = comps'[k].id) => comps'[k].x = comps[i].x
          /\ \A i \in 1..Len(comps'), k \in 1..Len(bullets') :
                (comps'[i].kind = "bullet" /\ comps'[i].id = bullets'[k].id)
                    => comps'[i].x = bullets'[k].x]_vars

\* a bullet auto-fired after the ship has moved, on its way up
C17_Witness ==
    /\ playing /\ shipPosRef # 0
    /\ \E i \in 1..Len(comps) :
          comps[i].kind = "bullet" /\ comps[i].x = shipPosRef /\ comps[i].y > 0

\* every asteroid there is: in the store, queued or mounted
AsteroidIdsInUse ==
    Ids(asteroids)
    \cup {comps[i].id : i \in {n \in 1..Len(comps) : comps[n].kind = "asteroid"}}
    \cup UNION {Ids(pending[k].list) :
                  k \in {n \in 1..Len(pending) : pending[n].op = "addAsteroid"}}

\* every explosion there is: in the store or mounted
ExplosionIdsInUse ==
    Ids(explosions)
    \cup {comps[i].id : i \in {n \in 1..Len(comps) : comps[n].kind = "explosion"}}

\* no two entries of a store share an id
DistinctIds(s) == \A i, k \in 1..Len(s) : s[i].id = s[k].id => i = k

\* C18: ids are unique per kind over the whole life of the game view: the
\* three id counters never go back, every id in use is below its counter,
\* an entity that comes into being gets an id at or above the counter (so
\* above every id given before, in this session or an earlier one, to an
\* initial asteroid or a spawned one), and no store lists an id twice
C18_UniqueIds ==
    /\ [](/\ DistinctIds(bullets) /\ DistinctIds(asteroids) /\ DistinctIds(explosions)
          /\ \A id \in BulletIdsInUse : id < bulletIdRef
          /\ \A id \in AsteroidIdsInUse : id < asteroidIdRef
          /\ \A id \in ExplosionIdsInUse : id < explosionIdRef)
    /\ [][/\ bulletIdRef' >= bulletIdRef
          /\ asteroidIdRef' >= asteroidIdRef
          /\ explosionIdRef' >= explosionIdRef
          /\ \A id \in BulletIdsInUse' \ BulletIdsInUse : id >= bulletIdRef
          /\ \A id \in AsteroidIdsInUse' \ AsteroidIdsInUse : id >= asteroidIdRef
          /\ \A id \in ExplosionIdsInUse' \ ExplosionIdsInUse : id >= explosionIdRef]_vars

\* a second session, after a first one in which the spawn interval has
\* added an asteroid and explosions were shown
C18_Witness ==
    /\ playing /\ asteroidIdRef >= 7 /\ Len(asteroids) = 3
    /\ bullets # <<>> /\ explosionIdRef >= 2

\* C19: the session is idle, playing or game over, and changes only from
\* idle to playing and from game over to playing by startGame, and from
\* playing to game over by the render of a frame in which an asteroid hit
\* or passed the ship; startGame is not available while playing and always
\* available while idle or game over; the session never returns to idle
C19_Lifecycle ==
    /\ [](gameOver => gameStarted)
    /\ [](playing => ~StartAvailable)
    /\ [](~playing => StartAvailable)
    /\ [][gameStarted => gameStarted']_vars
    /\ [][StartGame => ~playing /\ playing']_vars
    /\ [][(~playing /\ playing') => StartGame]_vars
    /\ [][(playing /\ ~playing') =>
            /\ gameStarted' /\ gameOver'
            /\ GameOverPending
            /\ \E j \in 1..Len(events) : events[j].type \in {"ship", "pass"}]_vars

\* a session restarted from game over, being played
C19_Witness ==
    playing /\ asteroidIdRef >= 6 /\ elapsed > 0 /\ bulletIdRef > 0

\* C20: while the session is idle or game over no key or pointer handler
\* runs (the listeners are not registered), and as long as it stays idle or
\* game over the ship's x (state and ref) and the game time do not change
\* and no bullet is created; only startGame is accepted
C20_InputIgnored ==
    /\ [][~playing => ~(KeyLeft \/ KeyRight \/ KeySpace \/ PointerMove)]_vars
    /\ [][(~playing /\ ~playing') =>
            /\ shipPosRef' = shipPosRef
            /\ shipPosition' = shipPosition
            /\ gameTime' = gameTime
            /\ bulletIdRef' = bulletIdRef
            /\ BulletIdsInUse' \subseteq BulletIdsInUse
            /\ inputs' = inputs]_vars
    /\ [](~playing => StartAvailable /\ ~Listening)

\* game over, rendered, in a session in which the ship had been moved
C20_Witness ==
    gameOver /\ pending = <<>> /\ inputs = 1 /\ shipPosRef # 0 /\ shipPosition = shipPosRef

\* how often callback cb was invoked by the loader of cache a
TimesInvoked(a, cb) == Cardinality({i \in 1..Len(a.invoked) : a.invoked[i] = cb})

HitEvents(ev) == {j \in 1..Len(ev) : ev[j].type = "hit"}

\* C22: a bullet that causes a hit is consumed: the frame that registers
\* the hit leaves no entry of that bullet in bulletsRef and the render of
\* the frame removes it from the bullet store; so a hit is always caused by
\* a bullet that is in the store, no two hits of a frame are caused by the
\* same bullet, and a bullet id causes at most one hit in its life
C22_BulletConsumedOnce ==
    /\ [][Frame =>
            /\ \A j \in HitEvents(events') :
                  /\ events'[j].bid \in Ids(bullets)
                  /\ events'[j].bid \notin Ids(bulletsRef')
            /\ \A j, k \in HitEvents(events') :
                  events'[j].bid = events'[k].bid => j = k]_vars
    /\ [][RenderStep =>
            \A j \in HitEvents(events) : events[j].bid \notin Ids(bullets')]_vars

\* the asteroid components whose bullet test the frame from this state runs
TestedAsteroids ==
    {i \in 1..Len(comps) :
        /\ comps[i].kind = "asteroid"
        /\ BulletTestRuns(comps[i], comps[i].y - comps[i].speed)}

\* C23: the frame callbacks run in the order of comps; when a frame runs
\* the bullet test of an asteroid, the callback of every mounted bullet has
\* already run in that frame, so that bulletsRef holds every live bullet at
\* its position of the current frame
C23_MoveBeforeCollide ==
    [][Frame =>
        \A i \in TestedAsteroids :
            \A k \in 1..Len(comps) : comps[k].kind = "bullet" => k < i]_vars

\* C24: a frame registers a hit only on an asteroid that it has moved below
\* the shield line y = 3 and that was not in its cooldown; so every
\* asteroid of the store whose component is at y >= 3 has health 3, and the
\* removal of a bullet by a hit is queued only by an asteroid below 3
C24_Shield ==
    /\ [](\A i \in 1..Len(comps) :
            (comps[i].kind = "asteroid" /\ comps[i].y >= 3000000) =>
                /\ \A k \in 1..Len(asteroids) :
                      asteroids[k].id = comps[i].id => asteroids[k].health = 3
                /\ \A j \in HitEvents(events) : events[j].aid # comps[i].id)
    /\ [][Frame =>
            \A j \in HitEvents(events') :
                /\ events'[j].y < 3000000
                /\ \A i \in AsteroidComps(comps, events'[j].aid) :
                      ~comps[i].cool /\ comps[i].y - comps[i].speed < 3000000]_vars

\* an asteroid above the shield with bullets flying past it at less than
\* 0.5 on both axes, and another asteroid already damaged
C24_Witness ==
    /\ playing
    /\ \E i \in 1..Len(comps), k \in 1..Len(bulletsRef) :
          /\ comps[i].kind = "asteroid" /\ comps[i].y >= 3000000
          /\ Abs(comps[i].x - bulletsRef[k].x) < 500000
          /\ Abs(comps[i].y - bulletsRef[k].y) < 500000
    /\ score > 0

\* the mounted Bullet components
BulletComps == {i \in 1..Len(comps) : comps[i].kind = "bullet"}

\* the frames a bullet lives, from -3 to the first y above 6
BulletFrames == (BulletMaxY - BulletStartY) \div BulletStep + 1

\* the bullets auto-fire and key presses can create while one bullet lives
MaxLiveBullets == (BulletFrames * FrameMs) \div ShootMs + 1 + MaxInputs

\* C25: every bullet of the store is launched at y = -3 and is mounted, so
\* that it moves; every frame raises the y of every mounted bullet by
\* exactly 0.3; the frame that raises it above 6 takes it out of bulletsRef
\* and queues its removal, which the next render carries out; so no bullet
\* is ever seen above 6.3, every bullet is removed after a bounded number
\* of frames, and the store never holds more bullets than can be created
\* during one bullet's life
C25_BulletLifetime ==
    /\ [](\A k \in 1..Len(bullets) :
            /\ bullets[k].y = -3000000
            /\ \E i \in BulletComps : comps[i].id = bullets[k].id)
    /\ [](\A i \in BulletComps :
            /\ comps[i].y >= -3000000 /\ comps[i].y <= 6300000
            /\ (comps[i].y + 3000000) % 300000 = 0
            /\ comps[i].y > 6000000 =>
                  /\ comps[i].id \notin Ids(bulletsRef)
                  /\ \E k \in 1..Len(pending) :
                        pending[k].op = "removeBullet" /\ pending[k].id = comps[i].id)
    /\ [](Len(bullets) <= MaxLiveBullets)
    /\ [][Frame =>
            /\ Len(comps') = Len(comps)
            /\ \A i \in BulletComps :
                  comps'[i].id = comps[i].id /\ comps'[i].y = comps[i].y + 300000]_vars
    /\ [][RenderStep =>
            \A k \in 1..Len(pending) :
                pending[k].op = "removeBullet" => pending[k].id \notin Ids(bullets')]_vars

\* a bullet that has just flown off the screen without hitting anything,
\* with the store as full as it gets
C25_Witness ==
    /\ \E i \in BulletComps :
          comps[i].y = 6300000 /\ comps[i].id \in Ids(bullets)
    /\ Len(bullets) >= 5

\* the mounted Explosion components
ExplosionComps == {i \in 1..Len(comps) : comps[i].kind = "explosion"}

\* C26: every explosion of the store is mounted, so that it advances; every
\* frame advances every mounted explosion by one step of its ExplosionLife
\* steps; the frame that uses up the last step queues the removal, which
\* the next render carries out, whether the session is playing or game
\* over; so every explosion is removed after a bounded number of frames
C26_ExplosionLifetime ==
    /\ [](\A k \in 1..Len(explosions) :
            \E i \in ExplosionComps : comps[i].id = explosions[k].id)
    /\ [](\A i \in ExplosionComps :
            /\ comps[i].life >= 0 /\ comps[i].life <= ExplosionLife
            /\ comps[i].life = 0 =>
                  \E k \in 1..Len(pending) :
                      pending[k].op = "removeExplosion" /\ pending[k].id = comps[i].id)
    /\ [][Frame =>
            \A i \in ExplosionComps :
                comps'[i].id = comps[i].id /\ comps'[i].life = comps[i].life - 1]_vars
    /\ [][RenderStep =>
            \A k \in 1..Len(pending) :
                pending[k].op = "removeExplosion" => pending[k].id \notin Ids(explosions')]_vars

\* the explosion of a game over, at its last step while the session is
\* game over
C26_Witness ==
    /\ gameOver
    /\ \E i \in ExplosionComps : comps[i].life = 0 /\ comps[i].id \in Ids(explosions)

\* C27: a space bar press is only taken while playing and it queues exactly
\* one new bullet, with the next bullet id, at the ship's current x and at
\* the bullet start height, as a tick of the auto-fire interval does; the
\* press leaves the auto-fire interval as it is, so both create bullets
C27_ManualFire ==
    /\ [][KeySpace =>
            /\ playing
            /\ pending' = Append(pending, Upd("addBullet", 0, 0, 0,
                              <<[id |-> bulletIdRef, x |-> shipPosRef, y |-> -3000000]>>))
            /\ bulletIdRef' = bulletIdRef + 1
            /\ timers' = timers]_vars
    /\ [][AutoShoot =>
            /\ pending' = Append(pending, Upd("addBullet", 0, 0, 0,
                              <<[id |-> bulletIdRef, x |-> shipPosRef, y |-> -3000000]>>))
            /\ bulletIdRef' = bulletIdRef + 1]_vars

\* two bullets in flight that were created less than one auto-fire period
\* apart: they are closer than the distance a bullet covers in 250 ms
C27_Witness ==
    /\ playing
    /\ inputs = 1
    /\ \E i, j \in BulletComps :
          /\ comps[i].id # comps[j].id
          /\ Abs(comps[i].y - comps[j].y) < (250 \div FrameMs) * 300000
          /\ {comps[i].id, comps[j].id} \subseteq Ids(bullets)

\* C28: at the start of every frame (the render is done and no timer is
\* due) every entry of bulletsRef has the id of a bullet of the bullet
\* store
C28_RefRefinesStore ==
    (pending = <<>> /\ ~TimerDue) => Ids(bulletsRef) \subseteq Ids(bullets)

\* C29: handleGameOver runs at most once in a session: a frame calls it at
\* most once, and only while the session is playing and no game over of
\* an earlier frame is waiting for its render
C29_GameOverOnce ==
    [][Frame =>
        /\ Cardinality(GameOverCalls') <= 1
        /\ GameOverCalls' # {} => playing]_vars

\* the mounted Asteroid components
MountedAsteroids == {i \in 1..Len(comps) : comps[i].kind = "asteroid"}

\* C30: every asteroid of the store has a positive speed and is mounted
\* with the x and the speed of the store; every frame lowers the y of every
\* mounted asteroid by exactly its speed and leaves its x and speed alone;
\* an asteroid keeps its x and speed as long as it is in the store, and it
\* leaves the store only in the render of a hit on it at health 1, in the
\* render of a game over, or by a restart; and while playing an asteroid
\* below the pass line has a game over queued. So each frame brings every
\* asteroid of the store a fixed step closer to the pass line, where the
\* session ends unless the asteroid was destroyed before
C30_AsteroidProgress ==
    /\ [](\A k \in 1..Len(asteroids) :
            /\ asteroids[k].speed > 0
            /\ \E i \in MountedAsteroids :
                  /\ comps[i].id = asteroids[k].id
                  /\ comps[i].x = asteroids[k].x
                  /\ comps[i].speed = asteroids[k].speed)
    /\ [](\A i \in MountedAsteroids :
            (playing /\ comps[i].y < -4500000) => GameOverPending)
    /\ [][Frame =>
            /\ Len(comps') = Len(comps)
            /\ \A i \in MountedAsteroids :
                  /\ comps'[i].id = comps[i].id
                  /\ comps'[i].x = comps[i].x
                  /\ comps'[i].speed = comps[i].speed
                  /\ comps[i].speed > 0
                  /\ comps'[i].y = comps[i].y - comps[i].speed]_vars
    /\ [][\A k \in 1..Len(asteroids) :
            /\ \A j \in 1..Len(asteroids') :
                  asteroids'[j].id = asteroids[k].id =>
                      /\ asteroids'[j].x = asteroids[k].x
                      /\ asteroids'[j].speed = asteroids[k].speed
            /\ asteroids[k].id \notin Ids(asteroids') =>
                  \/ (~gameStarted \/ gameOver) /\ gameStarted' /\ ~gameOver'
                  \/ /\ RenderStep
                     /\ \/ \E p \in 1..Len(pending) : pending[p].op = "setAsteroids"
                        \/ /\ asteroids[k].health = 1
                           /\ \E p \in 1..Len(pending) :
                                 pending[p].op = "hit" /\ pending[p].id = asteroids[k].id]_vars

\* a session in which an asteroid was destroyed and another one has fallen
\* below the pass line, which ends the session
C30_Witness ==
    /\ playing
    /\ destroys >= 1
    /\ GameOverPending
    /\ \E i \in MountedAsteroids :
          comps[i].y < -4500000 /\ comps[i].id \in Ids(asteroids)

=============================================================================
